---- MODULE Spec2Model ----
(***************************************************************************)
(* Task pool, login flow driver and account store of                      *)
(* playwright-google-login (pool.ts, index.ts, googleLogin.ts,             *)
(* accountManager.ts, logger.ts).                                          *)
(*                                                                         *)
(* Spec is the pool; SpecLogin is one call of performGoogleLogin against   *)
(* a browser that may show any page at any time; SpecStore is the          *)
(* AccountManager under every sequence of calls of its methods.            *)
(*                                                                         *)
(* The pool is one Node.js process: handlers run to their next await       *)
(* without interleaving, so every action below is the code between two     *)
(* suspension points.  The log file is assumed writable (fs.appendFile     *)
(* succeeds); failures of the browser, of the login flow and of the        *)
(* session teardown are choices of the environment.                        *)
(***************************************************************************)
EXTENDS Integers, Sequences, FiniteSets, TLC

\* ---- bounds of the model ------------------------------------------------
MaxTasks == 2        \* largest task count given on the command line
MaxAccounts == 2     \* largest number of lines of accounts.txt
MaxPool == 2         \* largest poolSize of configs.json

Emails == 1..MaxAccounts
NoAccount == 0       \* getNextAccount() returning null
TaskIds == 1..MaxTasks
NotExited == -1      \* the process is alive

\* The parsed lines of accounts.txt.  Lines may repeat an address.  Addresses
\* are interchangeable, so files are listed up to renaming: the first line
\* holds address 1 and every later line repeats an address or takes the next.
MaxOf(S) == IF S = {} THEN 0 ELSE CHOOSE x \in S : \A y \in S : y <= x

AccountFiles ==
    {f \in UNION {[1..k -> Emails] : k \in 0..MaxAccounts} :
        \A i \in 1..Len(f) : f[i] <= 1 + MaxOf({f[j] : j \in 1..(i - 1)})}

VARIABLES
    accounts,        \* AccountManager.accounts: e-mails in file order
    usedAccounts,    \* AccountManager.usedAccounts
    poolSize,        \* TaskPool.config.poolSize
    taskCount,       \* argument of runPool / addTasks
    tasks,           \* TaskPool.tasks: queue of [id, account]
    taskAccount,     \* Task.account by task id (NoAccount: no such task)
    status,          \* Task.status by task id ("none": no such task)
    taskError,       \* Task.error by task id
    runningTasks,    \* TaskPool.runningTasks
    completedTasks,  \* TaskPool.completedTasks
    failedTasks,     \* TaskPool.failedTasks
    log,             \* lines of logs.txt, in append order
    pc,              \* position of runPool
    tpc,             \* position of executeTask by task id
    proc,            \* browser process of the task's session
    client,          \* automation client (Browser) of the task's session
    floating,        \* promise of the task that nobody awaits
    mainCalls,       \* number of calls of main() by task id
    loginCalls,      \* number of calls of performGoogleLogin by task id
    rmCalls,         \* number of calls of removeAccountProfileFolder by task id
    exitCode,        \* argument of process.exit, NotExited while alive
    exitCause,
    \* performGoogleLogin (googleLogin.ts)
    url,             \* page.url(): [host, path, query]
    lastUrl,         \* lastUrl: [host, path]
    retryCount,      \* retryCount
    isGoogleLogined, \* isGoogleLogined
    loginTwoStepCode, \* accountInfo.twoStepCode, by its kind
    lpc,             \* position of performGoogleLogin
    loginError,      \* the Error performGoogleLogin threw
    urlPattern,      \* argument of the running waitForManualVerification
    border,          \* the highlight border is on the page
    manualPolls,     \* polls of the running waitForManualVerification
    pageAction,      \* what the last step of the driver did to the page
    authenticated,   \* Google has accepted the credentials of this session
    \* calls of the AccountManager by a client
    lastCall,        \* the last call and what it returned
    firstNext,       \* what the first getNextAccount() after the load returned
    cycle,           \* accounts returned since the used-set was last cleared
    pending,         \* the account returned last and not marked used yet
    marked,          \* every returned account was marked before the next call
    \* parseAccounts on its own
    content,         \* the lines of accounts.txt, each a sequence of fields
    parsed,          \* what parseAccounts returned
    \* configs.json, loadPoolConfig and the start-up wait of a session
    configData,      \* configs.json
    poolConfig,      \* what loadPoolConfig returned
    timeout,         \* argument of checkPortAvailable
    attempts,        \* attempts of checkPortAvailable
    probes,          \* calls of checkPort so far
    spc,             \* position of launchBrowserSession
    argv,            \* process.argv[2]
    sig,             \* position of the cleanup of setupSignalHandlers
    closing,         \* the sessions closeAllSessions was called for
    result,          \* the TaskResult passed to logTaskResult
    logEntry,        \* the line logTaskResult appended
    logFile,         \* logs.txt as the tail script sees it
    lastSize,        \* lastSize of tailLogs
    statSize,        \* stats.size read by the running poll
    printed,         \* what tail mode printed since it started
    tailFrom,        \* number of lines of logs.txt when tail mode started
    tailPc,          \* position of tailLogs
    requested,       \* argument of addTasks
    loopIndex,       \* i of the for loop of addTasks
    assigned,        \* the accounts given to the tasks built so far
    stats            \* what getAccountStats returned at the end of run()

poolVars == <<accounts, usedAccounts, poolSize, taskCount, tasks, taskAccount,
          status, taskError, runningTasks, completedTasks, failedTasks, log,
          pc, tpc, proc, client, floating, mainCalls, loginCalls, rmCalls,
          exitCode, exitCause>>

drvVars == <<url, lastUrl, retryCount, isGoogleLogined, loginTwoStepCode, lpc,
             loginError, urlPattern, border, manualPolls, pageAction,
             authenticated>>

storeVars == <<lastCall, firstNext, cycle, pending, marked>>

parseVars == <<content, parsed>>

setupVars == <<configData, poolConfig, timeout, attempts, probes, spc>>

cliVars == <<argv, sig, closing>>

fmtVars == <<result, logEntry>>

tailVars == <<logFile, lastSize, statSize, printed, tailFrom, tailPc>>

enqVars == <<requested, loopIndex, assigned, stats>>

auxVars == <<fmtVars, tailVars, enqVars>>

fnVars == <<parseVars, setupVars, cliVars, auxVars>>

vars == <<poolVars, drvVars, storeVars, fnVars>>

acctVars == <<accounts, usedAccounts>>
cfgVars == <<poolSize, taskCount>>
sessVars == <<proc, client, floating>>

Alive == exitCode = NotExited

\* ---- AccountManager -----------------------------------------------------
getTotalAccountCount(accts) == Len(accts)

UnusedIdx(accts, used) == {i \in 1..Len(accts) : accts[i] \notin used}

Min(S) == CHOOSE x \in S : \A y \in S : x <= y

getNextAccountFirst(accts, used) ==
    [account |-> IF Len(accts) > 0 THEN accts[1] ELSE NoAccount,
     used |-> used]

\* returns the account and the used-set it leaves behind
getNextAccount(accts, used) ==
    IF UnusedIdx(accts, used) # {}
    THEN [account |-> accts[Min(UnusedIdx(accts, used))], used |-> used]
    ELSE IF Cardinality(used) = Len(accts)
         THEN [account |-> IF Len(accts) > 0 THEN accts[1] ELSE NoAccount,
               used |-> {}]
         ELSE [account |-> NoAccount, used |-> used]

markAccountAsUsedToggle(used, email) ==
    IF email \in used THEN used \ {email} ELSE used \cup {email}

markAccountAsUsed(used, email) == used \cup {email}

getAccountStats(accts, used) ==
    [total |-> Len(accts), used |-> Cardinality(used),
     available |-> Len(accts) - Cardinality(used)]

\* ---- Logger -------------------------------------------------------------
logTaskResultSuccessOnly(lg, t, email, success, error) ==
    IF success
    THEN Append(lg, [kind |-> "result", task |-> t, email |-> email,
                     success |-> TRUE, error |-> "", attempts |-> 1])
    ELSE lg

logTaskResult(lg, t, email, success, error) ==
    Append(lg, [kind |-> "result", task |-> t, email |-> email,
                success |-> success, error |-> IF success THEN "" ELSE error,
                attempts |-> 1])

logBatchStartLine(lg, n) ==
    Append(lg, [kind |-> "start", taskCount |-> n])

logBatchEndLine(lg, ok, ko) ==
    Append(lg, [kind |-> "end", totalTasks |-> ok + ko,
                successCount |-> ok, failedCount |-> ko])

\* ---- TaskPool.addTasks --------------------------------------------------
RECURSIVE addTasksLoop(_, _, _, _, _)
addTasksLoop(i, n, accts, used, q) ==
    IF i > n THEN [tasks |-> q, used |-> used]
    ELSE LET r == getNextAccount(accts, used) IN
         IF r.account = NoAccount
         THEN addTasksLoop(i + 1, n, accts, r.used, q)
         ELSE addTasksLoop(i + 1, n, accts,
                           markAccountAsUsed(r.used, r.account),
                           Append(q, [id |-> i, account |-> r.account]))

QueuedIds(q) == {q[i].id : i \in 1..Len(q)}
AccountOf(q, t) == (CHOOSE i \in 1..Len(q) : q[i].id = t)

addTasks ==
    /\ Alive /\ pc = "addTasks"
    /\ UNCHANGED <<drvVars, storeVars, fnVars>>
    /\ IF getTotalAccountCount(accounts) = 0
       THEN \* throws; runPool catches and calls process.exit(1)
            /\ exitCode' = 1
            /\ exitCause' = "no-accounts"
            /\ pc' = "exited"
            /\ UNCHANGED <<usedAccounts, tasks, taskAccount, status>>
       ELSE LET r == addTasksLoop(1, taskCount, accounts, usedAccounts,
                                  tasks) IN
            /\ tasks' = r.tasks
            /\ usedAccounts' = r.used
            /\ taskAccount' = [t \in TaskIds |->
                   IF t \in QueuedIds(r.tasks)
                   THEN r.tasks[AccountOf(r.tasks, t)].account
                   ELSE NoAccount]
            /\ status' = [t \in TaskIds |->
                   IF t \in QueuedIds(r.tasks) THEN "pending" ELSE "none"]
            /\ pc' = "logBatchStart"
            /\ UNCHANGED <<exitCode, exitCause>>
    /\ UNCHANGED <<accounts, cfgVars, taskError, runningTasks, completedTasks,
                   failedTasks, log, tpc, sessVars, mainCalls, rmCalls,
                   loginCalls>>

logBatchStart ==
    /\ Alive /\ pc = "logBatchStart"
    /\ UNCHANGED <<drvVars, storeVars, fnVars>>
    /\ log' = logBatchStartLine(log, Len(tasks))
    /\ pc' = "removeProfilesFolder"
    /\ UNCHANGED <<acctVars, cfgVars, tasks, taskAccount, status, taskError,
                   runningTasks, completedTasks, failedTasks, tpc, sessVars,
                   mainCalls, rmCalls, loginCalls, exitCode, exitCause>>

\* ---- TaskPool.run -------------------------------------------------------
HasCapacityOffByOne(size, limit) == size <= limit

HasCapacity(size, limit) == size < limit

shiftLast(q) == [task |-> q[Len(q)], rest |-> SubSeq(q, 1, Len(q) - 1)]

\* this.tasks.shift()
shift(q) == [task |-> Head(q), rest |-> Tail(q)]

\* the inner while of run(): shift() and the synchronous head of executeTask
RECURSIVE admitLoop(_, _, _)
admitLoop(q, running, limit) ==
    IF HasCapacity(Cardinality(running), limit) /\ Len(q) > 0
    THEN admitLoop(shift(q).rest, running \cup {shift(q).task.id}, limit)
    ELSE [tasks |-> q, runningTasks |-> running]

\* the condition of the outer while of run()
runLoopConditionQueueOnly(q, running) == Len(q) > 0

runLoopCondition(q, running) == Len(q) > 0 \/ Cardinality(running) > 0

\* one pass of the outer while of run(), up to its next await
runLoopPass ==
    IF runLoopCondition(tasks, runningTasks)
    THEN LET r == admitLoop(tasks, runningTasks, poolSize)
             started == r.runningTasks \ runningTasks IN
         /\ tasks' = r.tasks
         /\ runningTasks' = r.runningTasks
         /\ status' = [t \in TaskIds |->
                IF t \in started THEN "running" ELSE status[t]]
         /\ tpc' = [t \in TaskIds |->
                IF t \in started THEN "launch" ELSE tpc[t]]
         /\ mainCalls' = [t \in TaskIds |->
                IF t \in started THEN mainCalls[t] + 1 ELSE mainCalls[t]]
         /\ pc' = "sleep"
    ELSE /\ pc' = "logBatchEnd"
         /\ UNCHANGED <<tasks, runningTasks, status, tpc, mainCalls>>

runStart ==
    /\ Alive /\ pc = "removeProfilesFolder"
    /\ UNCHANGED <<drvVars, storeVars, fnVars>>
    /\ runLoopPass
    /\ UNCHANGED <<acctVars, cfgVars, taskAccount, taskError, completedTasks,
                   failedTasks, log, sessVars, rmCalls, loginCalls, exitCode,
                   exitCause>>

runWake ==
    /\ Alive /\ pc = "sleep"
    /\ UNCHANGED <<drvVars, storeVars, fnVars>>
    /\ runLoopPass
    /\ UNCHANGED <<acctVars, cfgVars, taskAccount, taskError, completedTasks,
                   failedTasks, log, sessVars, rmCalls, loginCalls, exitCode,
                   exitCause>>

logBatchEnd ==
    /\ Alive /\ pc = "logBatchEnd"
    /\ UNCHANGED <<drvVars, storeVars, fnVars>>
    /\ log' = logBatchEndLine(log, completedTasks, failedTasks)
    /\ pc' = "returned"
    /\ UNCHANGED <<acctVars, cfgVars, tasks, taskAccount, status, taskError,
                   runningTasks, completedTasks, failedTasks, tpc, sessVars,
                   mainCalls, rmCalls, loginCalls, exitCode, exitCause>>

\* ---- TaskPool.executeTask and main --------------------------------------
\* the catch block of executeTask, up to its await of logTaskResult
executeTaskCatchRetry(t, e) ==
    /\ taskError' = [taskError EXCEPT ![t] = e]
    /\ status' = [status EXCEPT ![t] = "pending"]
    /\ tasks' = Append(tasks, [id |-> t, account |-> taskAccount[t]])
    /\ runningTasks' = runningTasks \ {t}
    /\ tpc' = [tpc EXCEPT ![t] = "idle"]
    /\ UNCHANGED <<failedTasks, completedTasks, mainCalls>>

executeTaskCatch(t, e) ==
    /\ taskError' = [taskError EXCEPT ![t] = e]
    /\ status' = [status EXCEPT ![t] = "failed"]
    /\ failedTasks' = failedTasks + 1
    /\ tpc' = [tpc EXCEPT ![t] = "log"]
    /\ UNCHANGED <<tasks, runningTasks, completedTasks, mainCalls>>

\* the try block of executeTask after main() returned, up to logTaskResult
executeTaskThenNoCount(t) ==
    /\ status' = [status EXCEPT ![t] = "completed"]
    /\ tpc' = [tpc EXCEPT ![t] = "log"]
    /\ UNCHANGED <<completedTasks, taskError, failedTasks, tasks,
                   runningTasks, mainCalls>>

executeTaskThen(t) ==
    /\ status' = [status EXCEPT ![t] = "completed"]
    /\ completedTasks' = completedTasks + 1
    /\ tpc' = [tpc EXCEPT ![t] = "log"]
    /\ UNCHANGED <<taskError, failedTasks, tasks, runningTasks, mainCalls>>

\* the inner catch of main: kill the process, close the client (not awaited)
mainCatchNoKill(t) ==
    /\ floating' = [floating EXCEPT ![t] = "close"]
    /\ UNCHANGED <<proc, client>>

mainCatch(t) ==
    /\ proc' = [proc EXCEPT ![t] = "killed"]
    /\ floating' = [floating EXCEPT ![t] = "close"]
    /\ UNCHANGED client

\* launchBrowserSession: exec() of the browser
launchBrowserProcess(t) ==
    /\ Alive /\ tpc[t] = "launch"
    /\ UNCHANGED <<drvVars, storeVars, fnVars>>
    /\ proc' = [proc EXCEPT ![t] = "running"]
    /\ tpc' = [tpc EXCEPT ![t] = "waitReady"]
    /\ UNCHANGED <<acctVars, cfgVars, tasks, taskAccount, status, taskError,
                   runningTasks, completedTasks, failedTasks, log, pc, client,
                   floating, mainCalls, rmCalls, loginCalls, exitCode,
                   exitCause>>

\* waitForBrowserReady: checkPortAvailable returned true
waitForBrowserReady(t) ==
    /\ Alive /\ tpc[t] = "waitReady"
    /\ UNCHANGED <<drvVars, storeVars, fnVars>>
    /\ tpc' = [tpc EXCEPT ![t] = "connect"]
    /\ UNCHANGED <<acctVars, cfgVars, tasks, taskAccount, status, taskError,
                   runningTasks, completedTasks, failedTasks, log, pc,
                   sessVars, mainCalls, rmCalls, loginCalls, exitCode,
                   exitCause>>

\* waitForBrowserReady throws: checkPortAvailable returned false
waitForBrowserReadyTimeout(t) ==
    /\ Alive /\ tpc[t] = "waitReady"
    /\ UNCHANGED <<drvVars, storeVars, fnVars>>
    /\ executeTaskCatch(t, "startup-timeout")
    /\ UNCHANGED <<acctVars, cfgVars, taskAccount, log, pc, sessVars, rmCalls,
                   loginCalls, exitCode, exitCause>>

\* connectToBrowser and getPage succeeded
connectToBrowser(t) ==
    /\ Alive /\ tpc[t] = "connect"
    /\ UNCHANGED <<drvVars, storeVars, fnVars>>
    /\ client' = [client EXCEPT ![t] = "open"]
    /\ tpc' = [tpc EXCEPT ![t] = "login"]
    /\ loginCalls' = [loginCalls EXCEPT ![t] = @ + 1]
    /\ UNCHANGED <<acctVars, cfgVars, tasks, taskAccount, status, taskError,
                   runningTasks, completedTasks, failedTasks, log, pc, proc,
                   floating, mainCalls, rmCalls, exitCode, exitCause>>

\* chromium.connectOverCDP threw
connectToBrowserFail(t) ==
    /\ Alive /\ tpc[t] = "connect"
    /\ UNCHANGED <<drvVars, storeVars, fnVars>>
    /\ executeTaskCatch(t, "connect-failure")
    /\ UNCHANGED <<acctVars, cfgVars, taskAccount, log, pc, sessVars, rmCalls,
                   loginCalls, exitCode, exitCause>>

\* performGoogleLogin returned: bringToFront (not awaited), main returns
performGoogleLoginOk(t) ==
    /\ Alive /\ tpc[t] = "login"
    /\ UNCHANGED <<drvVars, storeVars, fnVars>>
    /\ floating' = [floating EXCEPT ![t] = "bringToFront"]
    /\ executeTaskThen(t)
    /\ UNCHANGED <<acctVars, cfgVars, taskAccount, log, pc, proc, client,
                   rmCalls, loginCalls, exitCode, exitCause>>

\* performGoogleLogin threw
performGoogleLoginFail(t) ==
    /\ Alive /\ tpc[t] = "login"
    /\ UNCHANGED <<drvVars, storeVars, fnVars>>
    /\ mainCatch(t)
    /\ executeTaskCatch(t, "login-error")
    /\ UNCHANGED <<acctVars, cfgVars, taskAccount, log, pc, rmCalls,
                   loginCalls, exitCode, exitCause>>

\* logger.logTaskResult of either branch of executeTask
executeTaskLog(t) ==
    /\ Alive /\ tpc[t] = "log"
    /\ UNCHANGED <<drvVars, storeVars, fnVars>>
    /\ log' = IF taskAccount[t] # NoAccount
              THEN logTaskResult(log, t, taskAccount[t],
                                 status[t] = "completed", taskError[t])
              ELSE log
    /\ tpc' = [tpc EXCEPT ![t] = "rm"]
    /\ UNCHANGED <<acctVars, cfgVars, tasks, taskAccount, status, taskError,
                   runningTasks, completedTasks, failedTasks, pc, sessVars,
                   mainCalls, rmCalls, loginCalls, exitCode, exitCause>>

\* removeAccountProfileFolder (its errors are swallowed) and the finally block
executeTaskFinally(t) ==
    /\ Alive /\ tpc[t] = "rm"
    /\ UNCHANGED <<drvVars, storeVars, fnVars>>
    /\ rmCalls' = [rmCalls EXCEPT ![t] =
                      IF taskAccount[t] # NoAccount THEN @ + 1 ELSE @]
    /\ runningTasks' = runningTasks \ {t}
    /\ tpc' = [tpc EXCEPT ![t] = "done"]
    /\ UNCHANGED <<acctVars, cfgVars, tasks, taskAccount, status, taskError,
                   completedTasks, failedTasks, log, pc, sessVars, mainCalls,
                   loginCalls, exitCode, exitCause>>

\* the promise of browser.close() / page.bringToFront() is fulfilled
floatingFulfilled(t) ==
    /\ Alive /\ floating[t] \in {"close", "bringToFront"}
    /\ UNCHANGED <<drvVars, storeVars, fnVars>>
    /\ client' = [client EXCEPT ![t] =
                     IF floating[t] = "close" THEN "closed" ELSE @]
    /\ floating' = [floating EXCEPT ![t] = "settled"]
    /\ UNCHANGED <<acctVars, cfgVars, tasks, taskAccount, status, taskError,
                   runningTasks, completedTasks, failedTasks, log, pc, tpc,
                   proc, mainCalls, rmCalls, loginCalls, exitCode, exitCause>>

\* the promise is rejected: the 'unhandledRejection' handler runs cleanup,
\* which ends in process.exit(0) whether closing the sessions works or not
unhandledRejection(t) ==
    /\ Alive /\ floating[t] \in {"close", "bringToFront"}
    /\ UNCHANGED <<drvVars, storeVars, fnVars>>
    /\ floating' = [floating EXCEPT ![t] =
                       IF floating[t] = "close" THEN "closeRejected"
                       ELSE "bringToFrontRejected"]
    /\ exitCode' = 0
    /\ exitCause' = "unhandledRejection"
    /\ UNCHANGED <<acctVars, cfgVars, tasks, taskAccount, status, taskError,
                   runningTasks, completedTasks, failedTasks, log, pc, tpc,
                   proc, client, mainCalls, rmCalls, loginCalls>>

TaskStep(t) ==
    \/ launchBrowserProcess(t)
    \/ waitForBrowserReady(t)
    \/ waitForBrowserReadyTimeout(t)
    \/ connectToBrowser(t)
    \/ connectToBrowserFail(t)
    \/ performGoogleLoginOk(t)
    \/ performGoogleLoginFail(t)
    \/ executeTaskLog(t)
    \/ executeTaskFinally(t)
    \/ floatingFulfilled(t)
    \/ unhandledRejection(t)

\* ---- performGoogleLogin: URLs -------------------------------------------
\* A URL is its host, the patterns its path contains and the patterns its
\* query string contains (a continue= parameter can carry a login URL).
Patterns ==
    {"signin/identifier", "challenge/pwd", "challenge/totp",
     "signin/oauth/id", "signin/challenge/pk/presend", "challenge/selection",
     "challenge/kpe", "challenge/ipe/verify", "challenge/iap",
     "challenge/recaptcha", "challenge/ipp/consent", "accounts/SetSID",
     "challenge/ipp/verify"}

LoginHost == "accounts.google.com"

Url(h, p, q) == [host |-> h, path |-> p, query |-> q]

\* https://www.hedra.com/app/home
HomeUrl == Url("www.hedra.com", {}, {})

Urls ==
    {Url(LoginHost, {p}, {}) : p \in Patterns}
        \cup {Url(LoginHost, {}, {}),
              Url(LoginHost, {"challenge/pwd"}, {"challenge/kpe"}),
              Url("accounts.youtube.com", {"accounts/SetSID"}, {}),
              Url("www.hedra.com", {}, {"challenge/kpe"}),
              HomeUrl}

\* url.split("?")[0]
split(u) == [host |-> u.host, path |-> u.path]

\* lastUrl = ""
NoUrl == [host |-> "", path |-> {}]

\* url.includes(p) on the URL without its query
includes(u, p) == p \in u.path

\* url.includes(p) on the whole URL
includesWithQuery(u, p) == p \in (u.path \cup u.query)

startsWith(u, h) == u.host = h

noNeedCountUrlMatch ==
    {"challenge/kpe", "challenge/ipe/verify", "challenge/iap",
     "challenge/recaptcha", "challenge/ipp/consent", "accounts/SetSID",
     "challenge/ipp/verify"}

\* the kinds of accountInfo.twoStepCode: the empty string, a TOTP seed
\* (isTotp) and an application password (not isTotp)
TwoStepCodes == {"empty", "rotating", "static"}

RetryCeiling == 15
ReloadThreshold == 5
RetryCountAfterReload == -1

\* ---- performGoogleLogin: the branches of the loop -----------------------
stallCeilingReachedLate(n) == n > RetryCeiling + 1

stallCeilingReached(n) == n > RetryCeiling

\* the Error thrown at the ceiling
stallError(u) ==
    IF includes(u, "challenge/pwd") THEN "wrong-password"
    ELSE IF includes(u, "challenge/totp") THEN "wrong-totp"
    ELSE "too-many-retries"

needsReloadNever(n, u) == FALSE

needsReload(n, u) == n > ReloadThreshold /\ includes(u, "signin/identifier")

isCountedAlways(u) == TRUE

isCounted(u) == ~(\E p \in noNeedCountUrlMatch : includes(u, p))

isLoggedInUrlAnyOtherHost(u) == ~startsWith(u, LoginHost)

\* the test that ends the loop
isLoggedInUrl(u) ==
    /\ ~startsWith(u, LoginHost)
    /\ ~includes(u, "challenge/ipp/verify")
    /\ ~includes(u, "accounts/SetSID")

\* !loginTwoStepCode
twoStepCodeMissing(code) == code = "empty"

ManualPatterns ==
    {"challenge/kpe", "challenge/ipe/verify", "challenge/iap",
     "challenge/recaptcha", "challenge/ipp/consent"}

ruleAlwaysContinue(u) == "continue"

\* the first if of the loop body that the URL satisfies
rule(u) ==
    IF isLoggedInUrl(u) THEN "success"
    ELSE IF includes(u, "signin/identifier") THEN "signin/identifier"
    ELSE IF includes(u, "challenge/pwd") THEN "challenge/pwd"
    ELSE IF includes(u, "challenge/totp") THEN "challenge/totp"
    ELSE IF includes(u, "signin/oauth/id") THEN "signin/oauth/id"
    ELSE IF includes(u, "signin/challenge/pk/presend")
         THEN "signin/challenge/pk/presend"
    ELSE IF includes(u, "challenge/selection") THEN "challenge/selection"
    ELSE IF \E p \in ManualPatterns : includes(u, p)
         THEN "manual"
    ELSE IF includes(u, "accounts/SetSID")
            \/ includes(u, "challenge/ipp/verify")
         THEN "continue"
    ELSE "unhandled"

\* the pattern of the first manual-verification if the URL satisfies
manualPatternOf(u) ==
    IF includes(u, "challenge/kpe") THEN "challenge/kpe"
    ELSE IF includes(u, "challenge/ipe/verify") THEN "challenge/ipe/verify"
    ELSE IF includes(u, "challenge/iap") THEN "challenge/iap"
    ELSE IF includes(u, "challenge/recaptcha") THEN "challenge/recaptcha"
    ELSE "challenge/ipp/consent"

\* performGoogleLogin was not called
DriverIdle ==
    /\ url = HomeUrl
    /\ lastUrl = NoUrl
    /\ retryCount = 0
    /\ isGoogleLogined = FALSE
    /\ loginTwoStepCode = "empty"
    /\ lpc = "idle"
    /\ loginError = ""
    /\ urlPattern = ""
    /\ border = FALSE
    /\ manualPolls = 0
    /\ pageAction = "none"
    /\ authenticated = FALSE

\* ---- performGoogleLogin: the steps --------------------------------------
MaxManualPolls == 17   \* manualPolls stops counting here

Outcomes == {"ok", "page-error", "totp-error"}

\* performGoogleLogin throws
throw(e) ==
    /\ lpc' = "threw"
    /\ loginError' = e
    /\ UNCHANGED <<isGoogleLogined, urlPattern, border, manualPolls>>

\* continue: back to the head of the loop
continue ==
    /\ lpc' = "loop"
    /\ UNCHANGED <<loginError, isGoogleLogined, urlPattern, border,
                   manualPolls>>

\* the page actions of one branch: they are done, or one of them throws
handler(act, out) ==
    /\ pageAction' = act
    /\ IF out = "ok" THEN continue ELSE throw("page-error")

\* bringToFront and addHighlightBorder of waitForManualVerification(p)
waitForManualVerification(p, out) ==
    /\ pageAction' = "addHighlightBorder"
    /\ IF out = "ok"
       THEN /\ lpc' = "manual"
            /\ urlPattern' = p
            /\ border' = TRUE
            /\ manualPolls' = 0
            /\ UNCHANGED <<loginError, isGoogleLogined>>
       ELSE throw("page-error")

\* the branch url === lastUrl && retryCount != -1
stalled(u, out) ==
    /\ IF stallCeilingReached(retryCount)
       THEN /\ throw(stallError(u))
            /\ pageAction' = "none"
            /\ UNCHANGED retryCount
       ELSE IF needsReload(retryCount, u)
       THEN /\ retryCount' = RetryCountAfterReload
            /\ handler("reload", out)
       ELSE /\ retryCount' = IF isCounted(u) THEN retryCount + 1
                             ELSE retryCount
            /\ pageAction' = "none"
            /\ continue
    /\ UNCHANGED lastUrl

\* the branch of the challenge/totp page
totpHandler(out) ==
    IF twoStepCodeMissing(loginTwoStepCode)
    THEN throw("totp-not-configured") /\ pageAction' = "none"
    ELSE IF out = "totp-error"
    THEN throw("totp-error") /\ pageAction' = "none"
    ELSE handler("fillTotp", out)

\* the rest of the loop body: the URL is new, or the page was reloaded
dispatch(u, out, exists) ==
    /\ retryCount' = 0
    /\ lastUrl' = u
    /\ CASE rule(u) = "success" ->
              /\ isGoogleLogined' = TRUE
              /\ lpc' = "waitForURL"
              /\ pageAction' = "none"
              /\ UNCHANGED <<loginError, urlPattern, border, manualPolls>>
         [] rule(u) = "signin/identifier" -> handler("typeEmail", out)
         [] rule(u) = "challenge/pwd" -> handler("typePassword", out)
         [] rule(u) = "challenge/totp" -> totpHandler(out)
         [] rule(u) = "signin/oauth/id" -> handler("clickContinue", out)
         [] rule(u) = "signin/challenge/pk/presend" ->
              handler("clickTryOtherLoginMethods", out)
         [] rule(u) = "challenge/selection" ->
              IF exists THEN handler("clickAuthenticatorOption", out)
              ELSE waitForManualVerification("challenge/selection", out)
         [] rule(u) = "manual" ->
              waitForManualVerification(manualPatternOf(u), out)
         [] rule(u) = "continue" -> pageAction' = "none" /\ continue
         [] OTHER -> throw("unhandled-url") /\ pageAction' = "none"

\* goto, deleteCookieConfirm, click on "Sign in with Google" and
\* waitForURL("https://accounts.google.com/**")
startLogin(out) ==
    /\ lpc = "start"
    /\ out # "totp-error"
    /\ out = "ok" => startsWith(url, LoginHost)
    /\ pageAction' = "clickSignInWithGoogle"
    /\ IF out = "ok" THEN continue ELSE throw("page-error")
    /\ UNCHANGED <<url, lastUrl, retryCount, loginTwoStepCode, authenticated,
                   poolVars, storeVars, fnVars>>

\* one iteration of while (!isGoogleLogined), up to its sleep or continue
loopIteration(out, exists) ==
    /\ lpc = "loop"
    /\ LET u == split(url) IN
       /\ out = "totp-error" =>
             /\ ~(u = lastUrl /\ retryCount # RetryCountAfterReload)
             /\ rule(u) = "challenge/totp"
             /\ ~twoStepCodeMissing(loginTwoStepCode)
       /\ IF u = lastUrl /\ retryCount # RetryCountAfterReload
          THEN stalled(u, out)
          ELSE dispatch(u, out, exists)
    /\ UNCHANGED <<url, loginTwoStepCode, authenticated, poolVars,
                   storeVars, fnVars>>

\* one iteration of the loop of waitForManualVerification; when the pattern
\* is gone, removeHighlightBorder and continue
manualPoll ==
    /\ lpc = "manual"
    /\ IF ~includesWithQuery(url, urlPattern)
       THEN /\ lpc' = "loop"
            /\ border' = FALSE
            /\ urlPattern' = ""
            /\ manualPolls' = 0
            /\ pageAction' = "removeHighlightBorder"
       ELSE /\ manualPolls' = IF manualPolls < MaxManualPolls
                              THEN manualPolls + 1 ELSE manualPolls
            /\ UNCHANGED <<lpc, border, urlPattern, pageAction>>
    /\ UNCHANGED <<url, lastUrl, retryCount, isGoogleLogined,
                   loginTwoStepCode, loginError, authenticated, poolVars,
                   storeVars, fnVars>>

\* after the loop: waitForURL(home), the checkboxes, addHighlightBorder
afterLoop(out) ==
    /\ lpc = "waitForURL"
    /\ out # "totp-error"
    /\ out = "ok" => url = HomeUrl
    /\ IF out = "ok"
       THEN /\ lpc' = "returned"
            /\ border' = TRUE
            /\ pageAction' = "addHighlightBorder"
            /\ UNCHANGED <<loginError, urlPattern, manualPolls>>
       ELSE /\ lpc' = "threw"
            /\ loginError' = "page-error"
            /\ pageAction' = "none"
            /\ UNCHANGED <<border, urlPattern, manualPolls>>
    /\ UNCHANGED <<url, lastUrl, retryCount, isGoogleLogined,
                   loginTwoStepCode, authenticated, poolVars,
                   storeVars, fnVars>>

\* the browser shows another page: a redirect of Google, or the user's hand
navigate(u, accepted) ==
    /\ lpc \in {"start", "loop", "manual", "waitForURL"}
    /\ u # url
    /\ url' = u
    /\ authenticated' = (authenticated \/ accepted)
    /\ UNCHANGED <<lastUrl, retryCount, isGoogleLogined, loginTwoStepCode,
                   lpc, loginError, urlPattern, border, manualPolls,
                   pageAction, poolVars, storeVars, fnVars>>

\* ---- calls of the AccountManager ----------------------------------------
\* what a client may pass to markAccountAsUsed: the last one is in no file
Identifiers == 1..(MaxAccounts + 1)

NotCalled == -1      \* getNextAccount() was not called since the load

NoCall == [op |-> "none", arg |-> NoAccount, ret |-> NoAccount, before |-> {}]

Call(op, arg, ret) ==
    [op |-> op, arg |-> arg, ret |-> ret, before |-> usedAccounts]

IsDistinct(s) == \A i, j \in 1..Len(s) : i # j => s[i] # s[j]

\* no method of the AccountManager was called
StoreIdle ==
    /\ lastCall = NoCall
    /\ firstNext = NotCalled
    /\ cycle = <<>>
    /\ pending = NoAccount
    /\ marked = TRUE

\* loadAccounts(): accounts.txt holds f, or cannot be read
loadAccounts(f, readable) ==
    /\ lpc = "idle" /\ pc = "addTasks"
    /\ IF readable
       THEN /\ accounts' = f
            /\ lastCall' = Call("loadAccounts", NoAccount, NoAccount)
            /\ firstNext' = NotCalled
       ELSE /\ lastCall' = Call("loadAccountsThrew", NoAccount, NoAccount)
            /\ UNCHANGED <<accounts, firstNext>>
    /\ UNCHANGED <<usedAccounts, cycle, pending, marked, cfgVars, tasks,
                   taskAccount, status, taskError, runningTasks,
                   completedTasks, failedTasks, log, pc, tpc, sessVars,
                   mainCalls, loginCalls, rmCalls, exitCode, exitCause,
                   drvVars, fnVars>>

\* getNextAccount() called by a client
callGetNextAccount ==
    /\ lpc = "idle" /\ pc = "addTasks"
    /\ LET r == getNextAccount(accounts, usedAccounts)
           cleared == UnusedIdx(accounts, usedAccounts) = {}
                        /\ Cardinality(usedAccounts) = Len(accounts)
           c == IF cleared THEN <<>> ELSE cycle
           inOrder == marked /\ pending = NoAccount IN
       /\ usedAccounts' = r.used
       /\ lastCall' = Call("getNextAccount", NoAccount, r.account)
       /\ firstNext' = IF firstNext = NotCalled THEN r.account
                       ELSE firstNext
       /\ marked' = inOrder
       /\ pending' = r.account
       /\ cycle' = IF inOrder /\ IsDistinct(c) /\ r.account # NoAccount
                   THEN Append(c, r.account) ELSE c
    /\ UNCHANGED <<accounts, cfgVars, tasks, taskAccount, status, taskError,
                   runningTasks, completedTasks, failedTasks, log, pc, tpc,
                   sessVars, mainCalls, loginCalls, rmCalls, exitCode,
                   exitCause, drvVars, fnVars>>

\* markAccountAsUsed(email) called by a client
callMarkAccountAsUsed(email) ==
    /\ lpc = "idle" /\ pc = "addTasks"
    /\ usedAccounts' = markAccountAsUsed(usedAccounts, email)
    /\ lastCall' = Call("markAccountAsUsed", email, NoAccount)
    /\ pending' = IF email = pending THEN NoAccount ELSE pending
    /\ UNCHANGED <<accounts, firstNext, cycle, marked, cfgVars, tasks,
                   taskAccount, status, taskError, runningTasks,
                   completedTasks, failedTasks, log, pc, tpc, sessVars,
                   mainCalls, loginCalls, rmCalls, exitCode, exitCause,
                   drvVars, fnVars>>

\* resetAccountUsage() called by a client
resetAccountUsage ==
    /\ lpc = "idle" /\ pc = "addTasks"
    /\ usedAccounts' = {}
    /\ lastCall' = Call("resetAccountUsage", NoAccount, NoAccount)
    /\ cycle' = <<>>
    /\ UNCHANGED <<accounts, firstNext, pending, marked, cfgVars, tasks,
                   taskAccount, status, taskError, runningTasks,
                   completedTasks, failedTasks, log, pc, tpc, sessVars,
                   mainCalls, loginCalls, rmCalls, exitCode, exitCause,
                   drvVars, fnVars>>

\* ---- AccountManager.parseAccounts ---------------------------------------
\* A field of a line (the text between two tabs) is what the code looks at:
\* whether its first visible character is '#', how many of its characters
\* are in [A-Z0-9], how many are visible and not in [A-Z0-9] (the '#'
\* included), how many blanks lie between visible characters, and whether
\* blanks surround it.
MaxLines == 2        \* largest number of lines of the file

TotpMinLength == 16

Field(h, u, o, b, p) ==
    [hash |-> h, upper |-> u, other |-> o, blanks |-> b, pad |-> p]

EmptyField == Field(FALSE, 0, 0, 0, FALSE)      \* ""
BlankField == Field(FALSE, 0, 0, 0, TRUE)       \* "  "
PlainField == Field(FALSE, 0, 5, 0, FALSE)      \* "a@x.c"
CommentField == Field(TRUE, 0, 6, 1, FALSE)     \* "# a@x.c"

\* the third fields: a seed of 16 and of 15 characters, a seed written in
\* groups, a seed with blanks around it, an application password, a seed
\* with one lowercase letter, and nothing
ThirdFields ==
    {Field(FALSE, TotpMinLength, 0, 0, FALSE),
     Field(FALSE, TotpMinLength - 1, 0, 0, FALSE),
     Field(FALSE, TotpMinLength, 0, 3, FALSE),
     Field(FALSE, TotpMinLength, 0, 0, TRUE),
     Field(FALSE, 0, 32, 7, FALSE),
     Field(FALSE, TotpMinLength, 1, 0, FALSE),
     EmptyField}

\* the lines: split('\t') of a line
Lines ==
    {<<f>> : f \in {EmptyField, BlankField, PlainField, CommentField}}
        \cup {<<PlainField, PlainField>>,
              <<EmptyField, BlankField, EmptyField>>,
              <<PlainField, PlainField,
                Field(FALSE, TotpMinLength, 0, 0, FALSE), PlainField>>}
        \cup {<<e, PlainField, c>> :
                 e \in {PlainField, CommentField, EmptyField},
                 c \in ThirdFields}

Contents == UNION {[1..k -> Lines] : k \in 0..MaxLines}

\* String.prototype.trim
trim(f) == [f EXCEPT !.pad = FALSE]

\* twoStepCode.replace(/\s/g, '')
replaceWhitespace(f) == [f EXCEPT !.pad = FALSE, !.blanks = 0]

IsEmptyString(f) == ~f.hash /\ f.upper = 0 /\ f.other = 0 /\ ~f.pad

\* /^[A-Z0-9]{16,}$/.test(f)
testTotpLonger(f) ==
    /\ f.other = 0 /\ f.blanks = 0 /\ ~f.pad
    /\ f.upper > TotpMinLength

testTotp(f) ==
    /\ f.other = 0 /\ f.blanks = 0 /\ ~f.pad
    /\ f.upper >= TotpMinLength

\* line.trim(): a tab is white space, so the line is its fields side by side
lineTrim(line) == {i \in 1..Len(line) : ~IsEmptyString(trim(line[i]))}

\* the filter on content.split('\n')
filterLines(c) == SelectSeq(c, LAMBDA line : lineTrim(line) # {})

\* parts.length >= 3
minParts == 3

\* the body of the for loop: the account of a line, or none
accountOfLine(line) ==
    LET parts == [i \in 1..Len(line) |-> trim(line[i])] IN
    IF Len(parts) >= minParts
    THEN <<[email |-> parts[1], password |-> parts[2],
            twoStepCode |-> parts[3],
            isTotp |-> testTotp(replaceWhitespace(parts[3]))]>>
    ELSE <<>>

RECURSIVE parseLoop(_)
parseLoop(ls) ==
    IF ls = <<>> THEN <<>>
    ELSE accountOfLine(Head(ls)) \o parseLoop(Tail(ls))

parseAccounts(c) == parseLoop(filterLines(c))

NotParsed == <<[email |-> EmptyField]>>

\* parseAccounts was not called
ParseIdle == content = <<>> /\ parsed = NotParsed

callParseAccounts ==
    /\ parsed = NotParsed
    /\ parsed' = parseAccounts(content)
    /\ UNCHANGED <<content, setupVars, cliVars, poolVars, drvVars, storeVars,
                   auxVars>>

\* ---- the command line and the signal handlers ---------------------------
\* process.argv[2] as parseInt reads it: an optional minus sign, the value
\* of the leading digits (NoDigits when the text does not start with a
\* digit) and the text after them.
NoDigits == -1

Arg(n, d, r) == [neg |-> n, digits |-> d, rest |-> r]

Argvs ==
    {Arg(FALSE, d, "") : d \in 0..MaxTasks}
        \cup {Arg(TRUE, 1, ""), Arg(FALSE, NoDigits, "abc"),
              Arg(FALSE, MaxTasks, ".5"), Arg(FALSE, 1, "x")}

NoArg == Arg(FALSE, NoDigits, "")

NaN == [nan |-> TRUE, value |-> 0]

Number(n) == [nan |-> FALSE, value |-> n]

\* parseInt(text): the longest numeric prefix, whatever follows it
parseInt(a) ==
    IF a.digits = NoDigits THEN NaN
    ELSE Number(IF a.neg THEN 0 - a.digits ELSE a.digits)

isNaN(n) == n.nan

\* the signal handlers are not triggered
CliIdle == argv = NoArg /\ sig = "none" /\ closing = {}

\* the entry point: parse the task count, reject it or call runPool
cliMain ==
    /\ Alive /\ pc = "cli"
    /\ LET n == parseInt(argv) IN
       IF isNaN(n) \/ n.value < 1
       THEN /\ exitCode' = 1
            /\ exitCause' = "bad-task-count"
            /\ pc' = "exited"
            /\ UNCHANGED taskCount
       ELSE /\ taskCount' = n.value
            /\ pc' = "addTasks"
            /\ UNCHANGED <<exitCode, exitCause>>
    /\ UNCHANGED <<acctVars, poolSize, tasks, taskAccount, status, taskError,
                   runningTasks, completedTasks, failedTasks, log, tpc,
                   sessVars, mainCalls, loginCalls, rmCalls, drvVars,
                   storeVars, fnVars>>

OpenSessions == {t \in TaskIds : proc[t] = "running"}

\* SIGINT or SIGTERM: cleanup starts and awaits closeAllSessions
signal ==
    /\ Alive /\ pc \notin {"cli", "exited"} /\ sig = "none"
    /\ sig' = "closing"
    /\ closing' = OpenSessions
    /\ UNCHANGED <<argv, parseVars, setupVars, poolVars, drvVars, storeVars,
                   auxVars>>

\* closeAllSessions: the sessions it was called for are closed
closeAllSessions ==
    /\ proc' = [t \in TaskIds |->
                   IF t \in closing THEN "killed" ELSE proc[t]]
    /\ client' = [t \in TaskIds |->
                   IF t \in closing /\ client[t] = "open" THEN "closed"
                   ELSE client[t]]

\* cleanup after its await: closeAllSessions returned or threw, exit(0)
cleanup(ok) ==
    /\ sig = "closing"
    /\ IF ok THEN closeAllSessions ELSE UNCHANGED <<proc, client>>
    /\ exitCode' = 0
    /\ exitCause' = "signal"
    /\ sig' = IF ok THEN "closed" ELSE "failed"

cleanupStep(ok) ==
    /\ Alive
    /\ cleanup(ok)
    /\ UNCHANGED <<acctVars, cfgVars, tasks, taskAccount, status, taskError,
                   runningTasks, completedTasks, failedTasks, log, pc, tpc,
                   floating, mainCalls, loginCalls, rmCalls, argv, closing,
                   parseVars, setupVars, drvVars, storeVars,
                   auxVars>>

\* ---- configs.json and the start of a browser session --------------------
\* A JSON value as the code reads it: its type, its number (the value of a
\* number, 1 for true, the value a numeric string stands for), whether it
\* is a string that is no numeral, and its length when it is a string.
Js(t, n, x, l) == [type |-> t, num |-> n, nan |-> x, len |-> l]

JsUndefined == Js("undefined", 0, FALSE, 0)
JsNull == Js("null", 0, FALSE, 0)
JsNumber(n) == Js("number", n, FALSE, 0)
JsBoolean(b) == Js("boolean", IF b THEN 1 ELSE 0, FALSE, 0)
JsNumeral(n) == Js("string", n, FALSE, 1)      \* "2"
JsEmptyString == Js("string", 0, FALSE, 0)     \* ""
JsText == Js("string", 0, TRUE, 3)             \* "abc"
JsObject == Js("object", 0, FALSE, 0)          \* {}

\* the truthiness of a value
truthy(v) ==
    CASE v.type = "number" -> v.num # 0
      [] v.type = "boolean" -> v.num = 1
      [] v.type = "string" -> v.len > 0
      [] v.type = "object" -> TRUE
      [] OTHER -> FALSE

\* the conversion of a value to a number
ToNumber(v) ==
    CASE v.type \in {"number", "boolean", "null"} -> Number(v.num)
      [] v.type = "string" -> IF v.nan THEN NaN ELSE Number(v.num)
      [] OTHER -> NaN

\* v < n, n a number
lessThan(v, n) == ~ToNumber(v).nan /\ ToNumber(v).value < n

\* size < v, size a number
lessThanValue(size, v) == ~ToNumber(v).nan /\ size < ToNumber(v).value

DefaultPoolSize == 2
DefaultPortCheck == 120000
PollInterval == 1000

\* configs.json: no file, a text that is no JSON, the document null, or an
\* object with or without poolSize and timeouts.portCheck
Doc(k, p, t) == [kind |-> k, poolSize |-> p, portCheck |-> t]

PoolSizes ==
    {JsUndefined, JsNull, JsEmptyString, JsText, JsNumeral(2), JsObject,
     JsBoolean(TRUE), JsBoolean(FALSE)}
        \cup {JsNumber(n) : n \in -1..MaxPool}

PortChecks ==
    {JsUndefined}
        \cup {JsNumber(n) : n \in {-1500, 0, 1, 999, 1000, 1001, 2000, 2500}}

ConfigDocs ==
    {Doc(k, JsUndefined, JsUndefined) : k \in {"missing", "invalid", "null"}}
        \cup {Doc("object", p, t) : p \in PoolSizes, t \in PortChecks}

NotLoaded == [loaded |-> FALSE]

\* !config.poolSize || config.poolSize < 1
poolSizeInvalid(v) == ~truthy(v) \/ lessThan(v, 1)

\* loadPoolConfig: the catch covers readFile, JSON.parse, the property
\* access on null and the throw
loadPoolConfig(doc) ==
    IF doc.kind # "object" \/ poolSizeInvalid(doc.poolSize)
    THEN [poolSize |-> JsNumber(DefaultPoolSize)]
    ELSE [poolSize |-> doc.poolSize]

\* loadConfigs and configs.timeouts?.portCheck || 120000; launchBrowserProcess
\* has read configs.browser of the document null before
portCheckTimeout(doc) ==
    IF doc.kind \in {"missing", "invalid"} THEN DefaultPortCheck
    ELSE IF truthy(doc.portCheck) THEN doc.portCheck.num
    ELSE DefaultPortCheck

\* Math.ceil(timeout / 1000)
maxAttempts(t) == 0 - ((0 - t) \div PollInterval)

retryInclusive(n, t) == n <= maxAttempts(t)

\* attempts < maxAttempts
retry(n, t) == n < maxAttempts(t)

SetupIdle ==
    /\ configData = Doc("missing", JsUndefined, JsUndefined)
    /\ poolConfig = NotLoaded
    /\ timeout = 0
    /\ attempts = 0
    /\ probes = 0
    /\ spc = "idle"

\* runPool: const config = await loadPoolConfig()
callLoadPoolConfig ==
    /\ spc = "loadPoolConfig"
    /\ poolConfig' = loadPoolConfig(configData)
    /\ spc' = "launch"
    /\ UNCHANGED <<configData, timeout, attempts, probes, parseVars, cliVars,
                   poolVars, drvVars, storeVars,
                   auxVars>>

\* launchBrowserSession up to the call of checkPortAvailable; with the
\* document null launchBrowserProcess throws on configs.browser
launchBrowserSession ==
    /\ spc = "launch"
    /\ IF configData.kind = "null"
       THEN /\ spc' = "threw"
            /\ UNCHANGED timeout
       ELSE /\ spc' = "probe"
            /\ timeout' = portCheckTimeout(configData)
    /\ attempts' = 0
    /\ probes' = 0
    /\ UNCHANGED <<configData, poolConfig, parseVars, cliVars, poolVars,
                   drvVars, storeVars,
                   auxVars>>

\* one pass of the do-while of checkPortAvailable: checkPort() found the
\* debugger URL or not
checkPortAvailable(found) ==
    /\ spc = "probe"
    /\ probes' = probes + 1
    /\ IF found
       THEN /\ spc' = "connect"
            /\ UNCHANGED attempts
       ELSE /\ attempts' = attempts + 1
            /\ spc' = IF retry(attempts + 1, timeout) THEN "probe"
                      ELSE "startup-timeout"
    /\ UNCHANGED <<configData, poolConfig, timeout, parseVars, cliVars,
                   poolVars, drvVars, storeVars,
                   auxVars>>

\* connectOverCDP after waitForBrowserReady returned
connectOverCDP(ok) ==
    /\ spc = "connect"
    /\ spc' = IF ok THEN "session" ELSE "connect-failure"
    /\ UNCHANGED <<configData, poolConfig, timeout, attempts, probes,
                   parseVars, cliVars, poolVars, drvVars, storeVars,
                   auxVars>>

\* ---- Logger.logTaskResult on its own ------------------------------------
\* A TaskResult: error and duration are optional (undefined when absent),
\* the duration is in milliseconds.
Durations == {JsUndefined} \cup {JsNumber(n) : n \in {0, 499, 1500, 45000}}

Errors == {JsUndefined, JsEmptyString, JsText}

TaskResults ==
    [email : Emails, success : BOOLEAN, error : Errors,
     duration : Durations, attempts : 0..3]

NoInfo == -1

UnknownError == "unknown-error"         \* '未知错误'

\* Math.round(ms / 1000)
round(ms) == (ms + 500) \div 1000

\* result.duration ? ` (耗时: ...秒)` : ''
durationInfo(r) ==
    IF truthy(r.duration) THEN round(r.duration.num) ELSE NoInfo

attemptsInfoAlways(r) == r.attempts

\* result.attempts > 1 ? ` (尝试...次)` : ''
attemptsInfo(r) == IF r.attempts > 1 THEN r.attempts ELSE NoInfo

\* result.error || '未知错误'
errorMessage(r) == IF truthy(r.error) THEN "error-text" ELSE UnknownError

\* the line: email, marker, duration part, error part, attempts part
formatLogEntry(r) ==
    IF r.success
    THEN [email |-> r.email, marker |-> "success",
          duration |-> durationInfo(r), error |-> "",
          attempts |-> attemptsInfo(r)]
    ELSE [email |-> r.email, marker |-> "failure",
          duration |-> NoInfo, error |-> errorMessage(r),
          attempts |-> attemptsInfo(r)]

NoEntry == [marker |-> "none"]

FmtIdle ==
    /\ result = [email |-> 1, success |-> TRUE, error |-> JsUndefined,
                 duration |-> JsUndefined, attempts |-> 1]
    /\ logEntry = NoEntry

callLogTaskResult ==
    /\ logEntry = NoEntry
    /\ logEntry' = formatLogEntry(result)
    /\ UNCHANGED <<result, tailVars, enqVars, parseVars, setupVars, cliVars,
                   poolVars, drvVars, storeVars>>

\* another result is passed to the logger
nextResult(r) ==
    /\ logEntry # NoEntry
    /\ result' = r
    /\ logEntry' = NoEntry
    /\ UNCHANGED <<tailVars, enqVars, parseVars, setupVars, cliVars,
                   poolVars, drvVars, storeVars>>

\* ---- scripts/logs.ts: tailLogs --------------------------------------------
\* logs.txt is a sequence of lines; a line has a length in UTF-16 units and
\* a size in bytes, both with its line feed.  A line of ASCII text has as
\* many bytes as units, a line with a CJK character has two bytes more.
MaxAppends == 3      \* largest number of lines of logs.txt

AsciiLine == [chars |-> 3, bytes |-> 3]

CjkLine == [chars |-> 3, bytes |-> 5]

LogLines == {AsciiLine, CjkLine}

RECURSIVE Sum(_, _)
Sum(f, field) ==
    IF f = <<>> THEN 0
    ELSE (IF field = "bytes" THEN Head(f).bytes ELSE Head(f).chars)
             + Sum(Tail(f), field)

\* stats.size
size(f) == Sum(f, "bytes")

\* the index of the first character of line i in the content
startOf(f, i) == Sum(SubSeq(f, 1, i - 1), "chars")

\* content.substring(from): for each line, how many of its characters are
\* cut off
substring(f, from) ==
    [i \in 1..Len(f) |->
        IF from <= startOf(f, i) THEN 0
        ELSE IF from >= startOf(f, i) + f[i].chars THEN f[i].chars
        ELSE from - startOf(f, i)]

\* newContent.split('\n').filter(line => line.trim()): the lines of which
\* a visible character is left, each with the number of characters cut off
RECURSIVE newLines(_, _, _)
newLines(f, cut, i) ==
    IF i > Len(f) THEN <<>>
    ELSE (IF cut[i] < f[i].chars - 1
          THEN <<[line |-> i, skipped |-> cut[i]]>>
          ELSE <<>>) \o newLines(f, cut, i + 1)

TailIdle ==
    /\ logFile = <<>>
    /\ lastSize = 0
    /\ statSize = 0
    /\ printed = <<>>
    /\ tailFrom = 0
    /\ tailPc = "idle"

\* the logger appends a line to logs.txt
appendFile(l) ==
    /\ tailPc # "idle"
    /\ Len(logFile) < MaxAppends
    /\ logFile' = Append(logFile, l)
    /\ UNCHANGED <<lastSize, statSize, printed, tailFrom, tailPc, fmtVars,
                   enqVars, parseVars, setupVars, cliVars, poolVars,
                   drvVars, storeVars>>

\* tailLogs up to setInterval: lastSize = stats.size
tailLogs ==
    /\ tailPc = "start"
    /\ lastSize' = size(logFile)
    /\ tailFrom' = Len(logFile)
    /\ tailPc' = "wait"
    /\ UNCHANGED <<logFile, statSize, printed, fmtVars, enqVars, parseVars,
                   setupVars, cliVars, poolVars, drvVars, storeVars>>

\* the interval callback up to its await of readFile
tailStat ==
    /\ tailPc = "wait"
    /\ statSize' = size(logFile)
    /\ tailPc' = IF size(logFile) > lastSize THEN "read" ELSE "wait"
    /\ UNCHANGED <<logFile, lastSize, printed, tailFrom, fmtVars, enqVars,
                   parseVars, setupVars, cliVars, poolVars, drvVars,
                   storeVars>>

\* the interval callback after readFile
tailRead ==
    /\ tailPc = "read"
    /\ printed' = printed \o newLines(logFile, substring(logFile, lastSize), 1)
    /\ lastSize' = statSize
    /\ tailPc' = "wait"
    /\ UNCHANGED <<logFile, statSize, tailFrom, fmtVars, enqVars, parseVars,
                   setupVars, cliVars, poolVars, drvVars, storeVars>>

\* ---- addTasks and the account statistics of run() -----------------------
MaxRequested == 7    \* largest task count given to addTasks

\* no statistics printed yet
NoStats == [total |-> -1, used |-> -1, available |-> -1]

EnqIdle ==
    /\ requested = 0
    /\ loopIndex = 0
    /\ assigned = <<>>
    /\ stats = NoStats

\* one iteration of the for loop of addTasks: getNextAccount, the push of
\* the task and markAccountAsUsed
addTasksIteration ==
    /\ loopIndex >= 1
    /\ loopIndex <= requested
    /\ LET r == getNextAccount(accounts, usedAccounts) IN
       IF r.account = NoAccount
       THEN /\ usedAccounts' = r.used
            /\ UNCHANGED assigned
       ELSE /\ usedAccounts' = markAccountAsUsed(r.used, r.account)
            /\ assigned' = Append(assigned, r.account)
    /\ loopIndex' = loopIndex + 1
    /\ UNCHANGED <<accounts, requested, stats,
                   cfgVars, tasks, taskAccount, status, taskError,
                   runningTasks, completedTasks, failedTasks, log, pc, tpc,
                   sessVars, mainCalls, loginCalls, rmCalls, exitCode,
                   exitCause, drvVars, storeVars, parseVars, setupVars,
                   cliVars, fmtVars, tailVars>>

\* the end of run(): every task has finished, the statistics are printed
printAccountStats ==
    /\ loopIndex > requested
    /\ requested >= 1
    /\ stats = NoStats
    /\ stats' = getAccountStats(accounts, usedAccounts)
    /\ UNCHANGED <<accounts, usedAccounts, requested, loopIndex, assigned,
                   cfgVars, tasks, taskAccount, status, taskError,
                   runningTasks, completedTasks, failedTasks, log, pc, tpc,
                   sessVars, mainCalls, loginCalls, rmCalls, exitCode,
                   exitCause, drvVars, storeVars, parseVars, setupVars,
                   cliVars, fmtVars, tailVars>>

AuxIdle == FmtIdle /\ TailIdle /\ EnqIdle

FnIdle == ParseIdle /\ SetupIdle /\ CliIdle /\ AuxIdle

\* the pool before runPool is called
PoolIdle ==
    /\ poolSize = 1
    /\ taskCount = 1
    /\ tasks = <<>>
    /\ taskAccount = [t \in TaskIds |-> NoAccount]
    /\ status = [t \in TaskIds |-> "none"]
    /\ taskError = [t \in TaskIds |-> ""]
    /\ runningTasks = {}
    /\ completedTasks = 0
    /\ failedTasks = 0
    /\ log = <<>>
    /\ pc = "addTasks"
    /\ tpc = [t \in TaskIds |-> "idle"]
    /\ proc = [t \in TaskIds |-> "none"]
    /\ client = [t \in TaskIds |-> "none"]
    /\ floating = [t \in TaskIds |-> "none"]
    /\ mainCalls = [t \in TaskIds |-> 0]
    /\ loginCalls = [t \in TaskIds |-> 0]
    /\ rmCalls = [t \in TaskIds |-> 0]
    /\ exitCode = NotExited
    /\ exitCause = "none"

Init ==
    /\ accounts \in AccountFiles
    /\ usedAccounts = {}
    /\ poolSize \in 1..MaxPool
    /\ taskCount \in 1..MaxTasks
    /\ tasks = <<>>
    /\ taskAccount = [t \in TaskIds |-> NoAccount]
    /\ status = [t \in TaskIds |-> "none"]
    /\ taskError = [t \in TaskIds |-> ""]
    /\ runningTasks = {}
    /\ completedTasks = 0
    /\ failedTasks = 0
    /\ log = <<>>
    /\ pc = "addTasks"
    /\ tpc = [t \in TaskIds |-> "idle"]
    /\ proc = [t \in TaskIds |-> "none"]
    /\ client = [t \in TaskIds |-> "none"]
    /\ floating = [t \in TaskIds |-> "none"]
    /\ mainCalls = [t \in TaskIds |-> 0]
    /\ loginCalls = [t \in TaskIds |-> 0]
    /\ rmCalls = [t \in TaskIds |-> 0]
    /\ exitCode = NotExited
    /\ exitCause = "none"
    /\ DriverIdle
    /\ StoreIdle
    /\ FnIdle

Next ==
    \/ addTasks
    \/ logBatchStart
    \/ runStart
    \/ runWake
    \/ logBatchEnd
    \/ \E t \in TaskIds : TaskStep(t)

\* ---- performGoogleLogin on its own --------------------------------------
InitLogin ==
    /\ accounts = <<>>
    /\ usedAccounts = {}
    /\ PoolIdle
    /\ StoreIdle
    /\ FnIdle
    /\ url = HomeUrl
    /\ lastUrl = NoUrl
    /\ retryCount = 0
    /\ isGoogleLogined = FALSE
    /\ loginTwoStepCode \in TwoStepCodes
    /\ lpc = "start"
    /\ loginError = ""
    /\ urlPattern = ""
    /\ border = FALSE
    /\ manualPolls = 0
    /\ pageAction = "none"
    /\ authenticated = FALSE

NextLogin ==
    \/ \E out \in Outcomes : startLogin(out)
    \/ \E out \in Outcomes, exists \in BOOLEAN : loopIteration(out, exists)
    \/ manualPoll
    \/ \E out \in Outcomes : afterLoop(out)
    \/ \E u \in Urls, accepted \in BOOLEAN : navigate(u, accepted)

\* ---- the AccountManager on its own --------------------------------------
InitStore ==
    /\ accounts = <<>>
    /\ usedAccounts = {}
    /\ PoolIdle
    /\ DriverIdle
    /\ StoreIdle
    /\ FnIdle

NextStore ==
    \/ \E f \in AccountFiles, readable \in BOOLEAN : loadAccounts(f, readable)
    \/ callGetNextAccount
    \/ \E email \in Identifiers : callMarkAccountAsUsed(email)
    \/ resetAccountUsage

\* ---- the pool started from the command line, with signals ---------------
InitRun ==
    /\ accounts \in AccountFiles
    /\ usedAccounts = {}
    /\ poolSize \in 1..MaxPool
    /\ taskCount = 0
    /\ tasks = <<>>
    /\ taskAccount = [t \in TaskIds |-> NoAccount]
    /\ status = [t \in TaskIds |-> "none"]
    /\ taskError = [t \in TaskIds |-> ""]
    /\ runningTasks = {}
    /\ completedTasks = 0
    /\ failedTasks = 0
    /\ log = <<>>
    /\ pc = "cli"
    /\ tpc = [t \in TaskIds |-> "idle"]
    /\ proc = [t \in TaskIds |-> "none"]
    /\ client = [t \in TaskIds |-> "none"]
    /\ floating = [t \in TaskIds |-> "none"]
    /\ mainCalls = [t \in TaskIds |-> 0]
    /\ loginCalls = [t \in TaskIds |-> 0]
    /\ rmCalls = [t \in TaskIds |-> 0]
    /\ exitCode = NotExited
    /\ exitCause = "none"
    /\ DriverIdle
    /\ StoreIdle
    /\ ParseIdle
    /\ SetupIdle
    /\ AuxIdle
    /\ argv \in Argvs
    /\ sig = "none"
    /\ closing = {}

NextRun ==
    \/ cliMain
    \/ signal
    \/ \E ok \in BOOLEAN : cleanupStep(ok)
    \/ Next

\* ---- configs.json, loadPoolConfig and launchBrowserSession on their own --
InitSetup ==
    /\ accounts = <<>>
    /\ usedAccounts = {}
    /\ PoolIdle
    /\ DriverIdle
    /\ StoreIdle
    /\ ParseIdle
    /\ CliIdle
    /\ AuxIdle
    /\ configData \in ConfigDocs
    /\ poolConfig = NotLoaded
    /\ timeout = 0
    /\ attempts = 0
    /\ probes = 0
    /\ spc = "loadPoolConfig"

NextSetup ==
    \/ callLoadPoolConfig
    \/ launchBrowserSession
    \/ \E found \in BOOLEAN : checkPortAvailable(found)
    \/ \E ok \in BOOLEAN : connectOverCDP(ok)

\* ---- logTaskResult on its own --------------------------------------------
InitFormat ==
    /\ accounts = <<>>
    /\ usedAccounts = {}
    /\ PoolIdle
    /\ DriverIdle
    /\ StoreIdle
    /\ ParseIdle
    /\ SetupIdle
    /\ CliIdle
    /\ TailIdle
    /\ EnqIdle
    /\ result \in TaskResults
    /\ logEntry = NoEntry

NextFormat ==
    \/ callLogTaskResult
    \/ \E r \in TaskResults : nextResult(r)

\* ---- tailLogs on its own ------------------------------------------------
InitTail ==
    /\ accounts = <<>>
    /\ usedAccounts = {}
    /\ PoolIdle
    /\ DriverIdle
    /\ StoreIdle
    /\ ParseIdle
    /\ SetupIdle
    /\ CliIdle
    /\ FmtIdle
    /\ EnqIdle
    /\ logFile = <<>>
    /\ lastSize = 0
    /\ statSize = 0
    /\ printed = <<>>
    /\ tailFrom = 0
    /\ tailPc = "start"

\* ---- addTasks on its own: accounts.txt holds at least one account ------
InitEnqueue ==
    /\ accounts \in {f \in AccountFiles : Len(f) >= 1}
    /\ usedAccounts = {}
    /\ PoolIdle
    /\ DriverIdle
    /\ StoreIdle
    /\ ParseIdle
    /\ SetupIdle
    /\ CliIdle
    /\ FmtIdle
    /\ TailIdle
    /\ requested \in 1..MaxRequested
    /\ loopIndex = 1
    /\ assigned = <<>>
    /\ stats = NoStats

NextEnqueue ==
    \/ addTasksIteration
    \/ printAccountStats

NextTail ==
    \/ \E l \in LogLines : appendFile(l)
    \/ tailLogs
    \/ tailStat
    \/ tailRead

\* ---- parseAccounts on its own -------------------------------------------
InitParse ==
    /\ accounts = <<>>
    /\ usedAccounts = {}
    /\ PoolIdle
    /\ DriverIdle
    /\ StoreIdle
    /\ SetupIdle
    /\ CliIdle
    /\ AuxIdle
    /\ content \in Contents
    /\ parsed = NotParsed

NextParse == callParseAccounts

\* ---- properties -----------------------------------------------------------
Enqueued == {t \in TaskIds : status[t] # "none"}
InFlight == {t \in TaskIds : tpc[t] \notin {"idle", "done"}}
ResultsOf(t) == {i \in 1..Len(log) : log[i].kind = "result" /\ log[i].task = t}
Results(ok) ==
    {i \in 1..Len(log) : log[i].kind = "result" /\ log[i].success = ok}
Exited == exitCode # NotExited

\* C1: at no instant are more than poolSize tasks started and not finished;
\* the started-and-unfinished tasks are exactly the running set
C1_AdmissionInvariant ==
    /\ Cardinality(runningTasks) <= poolSize
    /\ InFlight = runningTasks

\* the pool is full while a task is still pending
C1_Witness ==
    /\ Cardinality(runningTasks) = poolSize
    /\ Len(tasks) > 0

\* C2: no two running tasks hold the same Credential, and a Credential is
\* given to a second task only after every Credential was given to a task
\* in between
C2_OneTaskPerCredential ==
    /\ \A t1, t2 \in runningTasks :
          t1 # t2 => taskAccount[t1] # taskAccount[t2]
    /\ \A t1, t2 \in Enqueued :
          (t1 < t2 /\ taskAccount[t1] = taskAccount[t2]) =>
              {accounts[k] : k \in 1..Len(accounts)} \subseteq
                  {taskAccount[m] : m \in {x \in Enqueued : t1 <= x /\ x < t2}}

\* C3: addTasks(n) against a store of K < n Credentials builds exactly K tasks
C3_Shortfall ==
    (pc = "logBatchStart" /\ Len(accounts) < taskCount) =>
        Len(tasks) = Len(accounts)

C5_RetryThreeTimes ==
    \A t \in TaskIds : status[t] = "failed" => mainCalls[t] = 3

C10_FailureNeverAbortsPool ==
    ~(/\ Exited
      /\ \E t \in TaskIds :
            status[t] = "failed" /\ floating[t] = "closeRejected"
      /\ \E t \in TaskIds : status[t] = "pending")

\* ---- properties of performGoogleLogin ----------------------------------
StallErrors == {"wrong-password", "wrong-totp", "too-many-retries"}

\* the error the stall policy gives for a URL
ExpectedStallError(u) ==
    IF "challenge/pwd" \in u.path THEN "wrong-password"
    ELSE IF "challenge/totp" \in u.path THEN "wrong-totp"
    ELSE "too-many-retries"

\* C11: the stall counter never passes 16; a poll that finds the URL
\* unchanged after more than 15 counted polls makes performGoogleLogin fail,
\* with the wrong-password error on the password page, the wrong-code error
\* on the second-factor page and the too-many-retries error elsewhere; these
\* errors are thrown in no other case
C11_StallCeiling ==
    /\ [](/\ retryCount <= RetryCeiling + 1
          /\ loginError \in StallErrors =>
                /\ retryCount > RetryCeiling
                /\ split(url) = lastUrl
                /\ loginError = ExpectedStallError(lastUrl))
    /\ [][(/\ lpc = "loop"
           /\ retryCount > RetryCeiling
           /\ split(url) = lastUrl
           /\ url' = url) =>
              /\ lpc' = "threw"
              /\ loginError' = ExpectedStallError(lastUrl)]_vars

\* the login failed at the ceiling on the second-factor page
C11_Witness ==
    /\ lpc = "threw"
    /\ loginError = "wrong-totp"
    /\ retryCount = RetryCeiling + 1
    /\ "challenge/totp" \in lastUrl.path

\* C12: a poll that finds the identifier page unchanged after more than 5
\* counted polls reloads the page (one reload per such poll, and no reload in
\* any other case) and puts the counter to -1, from where the next poll puts
\* it to 0; so on the identifier page the counter never passes 6 and none of
\* the errors of the ceiling is thrown
C12_IdentifierReload ==
    /\ []("signin/identifier" \in lastUrl.path =>
             (retryCount <= ReloadThreshold + 1
                /\ loginError \notin StallErrors))
    /\ [][(lpc = "loop" /\ url' = url) =>
            /\ (/\ split(url) = lastUrl
                /\ retryCount > ReloadThreshold
                /\ "signin/identifier" \in lastUrl.path) =>
                   (pageAction' = "reload"
                      /\ retryCount' = RetryCountAfterReload)
            /\ pageAction' = "reload" =>
                   (/\ split(url) = lastUrl
                    /\ retryCount > ReloadThreshold
                    /\ "signin/identifier" \in lastUrl.path)
            /\ retryCount = RetryCountAfterReload => retryCount' = 0]_vars

\* the identifier page was just reloaded
C12_Witness ==
    /\ lpc = "loop"
    /\ pageAction = "reload"
    /\ retryCount = RetryCountAfterReload
    /\ "signin/identifier" \in lastUrl.path

\* C13: on the second-factor page the driver fills in a one-time code if and
\* only if the account holds a TOTP seed; with an empty or a static second
\* factor it throws the not-configured error and does nothing to the page
C13_TotpOnlyFromSeed ==
    /\ [](/\ pageAction = "fillTotp" => loginTwoStepCode = "rotating"
          /\ loginError = "totp-not-configured" =>
                (loginTwoStepCode # "rotating" /\ pageAction = "none"))
    /\ [][(/\ lpc = "loop" /\ url' = url
           /\ ~(split(url) = lastUrl /\ retryCount # -1)
           /\ url.host = LoginHost
           /\ "challenge/totp" \in url.path) =>
              IF loginTwoStepCode = "rotating"
              THEN pageAction' = "fillTotp" \/ lpc' = "threw"
              ELSE /\ lpc' = "threw"
                   /\ loginError' = "totp-not-configured"
                   /\ pageAction' = "none"]_vars

\* no if of the loop body is satisfied by the URL
NoRuleMatches(u) == u.host = LoginHost /\ u.path \cap Patterns = {}

\* C14: an iteration of the loop that reads a URL no rule matches throws the
\* unhandled-URL error and does nothing to the page; the error is thrown for
\* such URLs only
C14_UnhandledUrl ==
    /\ [](loginError = "unhandled-url" =>
             (NoRuleMatches(url) /\ pageAction = "none" /\ lpc = "threw"))
    /\ [][(lpc = "loop" /\ url' = url /\ NoRuleMatches(url)) =>
              /\ lpc' = "threw"
              /\ loginError' = "unhandled-url"
              /\ pageAction' = "none"]_vars

\* the login failed on a page of Google no rule knows
C14_Witness ==
    /\ lpc = "threw"
    /\ loginError = "unhandled-url"
    /\ url = Url(LoginHost, {}, {})

\* C15: while waitForManualVerification runs, the border is on, nothing is
\* thrown, the stall counter stands still and no action is done to the page;
\* a poll that reads a URL still containing the pattern stays in the wait, and
\* the wait ends, removing the border, only at a poll that reads a URL
\* without the pattern; a poll of the dispatch loop that finds a
\* manual-verification page unchanged does not count it either
C15_ManualWaitUnbounded ==
    /\ [](lpc = "manual" =>
             /\ border
             /\ loginError = ""
             /\ urlPattern \in ManualPatterns \cup {"challenge/selection"})
    /\ [][lpc = "manual" =>
            /\ retryCount' = retryCount
            /\ loginError' = ""
            /\ lpc' = "manual" => (pageAction' = pageAction /\ border')
            /\ lpc' # "manual" =>
                  /\ lpc' = "loop"
                  /\ urlPattern \notin (url.path \cup url.query)
                  /\ ~border'
                  /\ pageAction' = "removeHighlightBorder"
            /\ (url' = url /\ urlPattern \in (url.path \cup url.query)) =>
                  lpc' = "manual"]_vars
    /\ [][(/\ lpc = "loop" /\ url' = url
           /\ split(url) = lastUrl
           /\ url.path \cap ManualPatterns # {}) =>
              /\ retryCount' = retryCount
              /\ lpc' = "loop"
              /\ pageAction' = "none"]_vars

\* the wait has lasted longer than the stall ceiling allows elsewhere
C15_Witness ==
    /\ lpc = "manual"
    /\ manualPolls > RetryCeiling + 1
    /\ retryCount = 0
    /\ loginError = ""

\* the URL is off the login host and is none of the two passing redirects
LeftLogin(u) ==
    /\ u.host # LoginHost
    /\ "accounts/SetSID" \notin u.path
    /\ "challenge/ipp/verify" \notin u.path

\* C16 as stated: the loop ends with success only on a URL that left the
\* login host, is no passing redirect and was reached after Google accepted
\* the credentials
C16_SuccessOnlyAuthenticated ==
    isGoogleLogined => (LeftLogin(lastUrl) /\ authenticated)

\* C16 amended: the loop ends with success exactly when it reads a URL that
\* left the login host and is no passing redirect, whether or not Google
\* accepted the credentials; it does nothing to the page then
C16_SuccessByUrlAlone ==
    /\ [](isGoogleLogined <=> (lastUrl # NoUrl /\ LeftLogin(lastUrl)))
    /\ [][(lpc = "loop" /\ url' = url) =>
             IF LeftLogin(url)
             THEN /\ isGoogleLogined'
                  /\ lpc' = "waitForURL"
                  /\ pageAction' = "none"
                  /\ lastUrl' = split(url)
             ELSE ~isGoogleLogined']_vars

\* the loop ended with success on the application's page although Google
\* never accepted the credentials
C16_Witness ==
    /\ isGoogleLogined
    /\ lpc = "waitForURL"
    /\ lastUrl = split(HomeUrl)
    /\ ~authenticated

\* ---- properties of the AccountManager -----------------------------------
\* every account of the store is in the used-set
AllUsed(accts, used) == \A i \in 1..Len(accts) : accts[i] \in used

\* C17: getNextAccount() returns the first account in file order that is not
\* in the used-set and leaves the used-set alone; when every account is in
\* the used-set it empties the used-set and returns the first account, which
\* is the account the first call after the load returned
C17_NextInLoadOrder ==
    lastCall.op = "getNextAccount" =>
        IF ~AllUsed(accounts, lastCall.before)
        THEN /\ \E i \in 1..Len(accounts) :
                   /\ lastCall.ret = accounts[i]
                   /\ accounts[i] \notin lastCall.before
                   /\ \A j \in 1..(i - 1) : accounts[j] \in lastCall.before
             /\ usedAccounts = lastCall.before
        ELSE IF Len(accounts) > 0
        THEN /\ lastCall.ret = accounts[1]
             /\ usedAccounts = {}
             /\ lastCall.ret = firstNext
        ELSE lastCall.ret = NoAccount

\* C18: getNextAccount() returns null only if the store holds no account
C18_NoneOnlyIfEmpty ==
    (lastCall.op = "getNextAccount" /\ lastCall.ret = NoAccount) =>
        Len(accounts) = 0

\* C19: when every returned account was marked used before the following
\* getNextAccount(), the accounts returned since the used-set was last
\* emptied are pairwise distinct
C19_DistinctWithinCycle ==
    marked => IsDistinct(cycle)

\* every account of the file was returned and marked in turn, and the call
\* after that has emptied the used-set and started a new cycle
C19_Witness ==
    /\ marked
    /\ Len(accounts) = MaxAccounts
    /\ lastCall.op = "getNextAccount"
    /\ Cardinality(lastCall.before) = MaxAccounts
    /\ usedAccounts = {}
    /\ cycle = <<firstNext>>

\* C20: markAccountAsUsed(email) for an email that is in the used-set
\* already leaves the used-set, the statistics and the result of the next
\* getNextAccount() as they were after the first call
C20_MarkUsedIdempotent ==
    (lastCall.op = "markAccountAsUsed" /\ lastCall.arg \in lastCall.before) =>
        /\ usedAccounts = lastCall.before
        /\ getAccountStats(accounts, usedAccounts)
              = getAccountStats(accounts, lastCall.before)
        /\ getNextAccount(accounts, usedAccounts)
              = getNextAccount(accounts, lastCall.before)

\* an account of the store was marked a second time
C20_Witness ==
    /\ lastCall.op = "markAccountAsUsed"
    /\ lastCall.arg \in lastCall.before
    /\ \E i \in 1..Len(accounts) : accounts[i] = lastCall.arg

\* a line as the claim classifies it: some visible character, three fields
Visible(f) == f.upper > 0 \/ f.other > 0
IsBlankLine(line) == \A i \in 1..Len(line) : ~Visible(line[i])
IsValidLine(line) == ~IsBlankLine(line) /\ Len(line) >= 3
ValidLines == SelectSeq(content, IsValidLine)
SameText(f, g) ==
    /\ f.hash = g.hash /\ f.upper = g.upper
    /\ f.other = g.other /\ f.blanks = g.blanks

\* C21: a file with K valid lines (not blank, at least three fields) gives
\* exactly K credentials, the i-th one made of the first three fields of
\* the i-th valid line, whatever malformed lines lie between them, and a
\* credential is marked as a TOTP seed exactly when its third field without
\* its white space is made of at least 16 characters, all in [A-Z0-9].
C21_ParseValidLines ==
    parsed # NotParsed =>
        /\ Len(parsed) = Len(ValidLines)
        /\ \A i \in 1..Len(parsed) :
              /\ SameText(parsed[i].email, ValidLines[i][1])
              /\ SameText(parsed[i].password, ValidLines[i][2])
              /\ SameText(parsed[i].twoStepCode, ValidLines[i][3])
              /\ parsed[i].isTotp <=>
                    /\ ValidLines[i][3].other = 0
                    /\ ValidLines[i][3].upper >= 16

\* a malformed line was skipped and the seed after it, written in groups,
\* was recognised
C21_Witness ==
    /\ parsed # NotParsed
    /\ Len(content) = MaxLines
    /\ ~IsBlankLine(content[1]) /\ ~IsValidLine(content[1])
    /\ Len(parsed) = 1
    /\ parsed[1].isTotp
    /\ parsed[1].twoStepCode.blanks > 0

\* C22: no line that is blank or starts with '#' produces a credential:
\* the file gives at most as many credentials as it has other lines, and
\* none of them has an email that starts with '#'.
C22_CommentsIgnored ==
    parsed # NotParsed =>
        /\ Len(parsed) <= Len(SelectSeq(content,
                LAMBDA line : ~IsBlankLine(line) /\ ~line[1].hash))
        /\ \A i \in 1..Len(parsed) : ~parsed[i].email.hash

\* the task count asked for on the command line is an integer >= 1
IsIntegerAtLeastOne(a) == ~a.neg /\ a.digits >= 1 /\ a.rest = ""
Started == {t \in TaskIds : tpc[t] # "idle"}

\* C23: the process has exited with 1, no task started, as soon as the
\* entry point has passed a task count that is not an integer >= 1 or
\* addTasks has passed an empty or unreadable account file; an exit with 1
\* leaves no task started; and the process exits with 0 only after run()
\* returned or from the cleanup of SIGINT and SIGTERM.
C23_ExitCodes ==
    /\ pc # "cli" /\ ~IsIntegerAtLeastOne(argv) => exitCode = 1
    /\ pc \notin {"cli", "addTasks"} /\ getTotalAccountCount(accounts) = 0
          => exitCode = 1
    /\ exitCode = 1 => Started = {}
    /\ exitCode = 0 => pc = "returned" \/ exitCause = "signal"

\* C24: when the cleanup of SIGINT or SIGTERM has logged that all browsers
\* are closed, no session is open, and the cleanup ends with the exit of
\* the process whether closeAllSessions returned or threw.
C24_ShutdownClosesSessions ==
    /\ sig = "closed" => OpenSessions = {}
    /\ sig \in {"closed", "failed"} => exitCode = 0

\* a poll of the login loop, and what the claims expect of its counter
Poll == \E out \in Outcomes, exists \in BOOLEAN : loopIteration(out, exists)
TransientPatterns == {"accounts/SetSID", "challenge/ipp/verify"}
Matches(u, ps) == \E p \in ps : includes(u, p)
SameUrlAgain == split(url) = lastUrl

C26_TeardownSwallowed ==
    \A t \in TaskIds :
        floating[t] = "closeRejected" =>
            /\ ~Exited
            /\ status[t] = "failed"
            /\ taskError[t] = "login-error"

\* C27: tasks are numbered in the order of the queue; a task that was
\* started finds every task enqueued before it started too.
C27_AdmittedInQueueOrder ==
    \A a, b \in Enqueued :
        (a < b /\ b \in Started) => a \in Started

\* the task enqueued second has ended while the first one is still running
C27_Witness ==
    \E a, b \in Enqueued :
        /\ a < b
        /\ tpc[b] = "done"
        /\ a \in runningTasks

\* run() was entered
RunCalled == pc \in {"sleep", "logBatchEnd", "returned"}

\* C28: when nothing more can happen after run() was entered and every
\* started task has finished, run() has returned; run() has returned only
\* with an empty queue and an empty running set; and a pass of the
\* admission loop that finds a pending task and fewer than poolSize running
\* tasks starts a pending task.
C28_PoolTerminates ==
    /\ (RunCalled /\ ~ENABLED Next /\ \A t \in Started : tpc[t] = "done")
          => pc = "returned"
    /\ pc = "returned" => (Len(tasks) = 0 /\ runningTasks = {})
    /\ ~ENABLED (/\ runStart \/ runWake
                 /\ Len(tasks) > 0
                 /\ Cardinality(runningTasks) < poolSize
                 /\ ~\E t \in TaskIds :
                        status[t] = "pending" /\ status'[t] = "running")

\* max(1, ceil(timeout / 1000)), from the definition of the ceiling
ExpectedProbes ==
    LET c == CHOOSE k \in -2..121 :
                 (k - 1) * 1000 < timeout /\ timeout <= k * 1000
    IN IF c > 1 THEN c ELSE 1

\* C29: the polling loop is left after every pass that finds the debugger
\* URL, with every pass before it failed, and otherwise after exactly
\* max(1, ceil(timeout / 1000)) failed passes; after a start-up timeout
\* the launch stays failed and connectOverCDP is not called; and the loop
\* is left eventually.
C29_StartupWait ==
    /\ [](/\ spc = "probe" => (probes = attempts /\ probes < ExpectedProbes)
          /\ spc = "connect" =>
                (probes = attempts + 1 /\ probes <= ExpectedProbes)
          /\ spc = "startup-timeout" =>
                (probes = attempts /\ probes = ExpectedProbes))
    /\ [][/\ spc = "startup-timeout" => spc' = "startup-timeout"
          /\ (spc = "probe" /\ attempts' = attempts) => spc' = "connect"
          /\ spc' = "connect" => attempts' = attempts]_vars
    /\ (spc = "probe") ~> (spc \in {"connect", "startup-timeout"})

\* a timeout of 2.5 seconds ran out after three failed probes
C29_Witness ==
    /\ spc = "startup-timeout"
    /\ timeout = 2500
    /\ probes = 3

\* C30: whatever configs.json holds, the pool size loadPoolConfig returns
\* lets run() start a task when none is running, and it is the default 2
\* whenever the file is missing or no JSON or its poolSize is not a number
\* >= 1.
C30_PoolSizeAtLeastOne ==
    poolConfig # NotLoaded =>
        /\ lessThanValue(0, poolConfig.poolSize)
        /\ \/ /\ configData.kind = "object"
              /\ configData.poolSize.type = "number"
              /\ configData.poolSize.num >= 1
           \/ poolConfig.poolSize = JsNumber(2)

\* the whole seconds nearest to a number of milliseconds
WholeSeconds(ms) ==
    CHOOSE k \in 0..50 : 1000 * k - 500 <= ms /\ ms < 1000 * k + 500
ErrorPart == IF truthy(result.error) THEN "error-text" ELSE "unknown-error"
AttemptsPart == logEntry.attempts # NoInfo <=> result.attempts > 1

Appended ==
    [i \in 1..(Len(logFile) - tailFrom) |->
        [line |-> tailFrom + i, skipped |-> 0]]
IsPrefix(a, b) == Len(a) <= Len(b) /\ a = SubSeq(b, 1, Len(a))

\* C32: what tail mode printed is always a prefix of the lines appended
\* since it started, each of them complete, and it is all of them whenever
\* the poll has found the size it last recorded.
C32_TailPrintsEveryLineOnce ==
    tailPc \in {"wait", "read"} =>
        /\ IsPrefix(printed, Appended)
        /\ (tailPc = "wait" /\ lastSize = size(logFile)) =>
              printed = Appended

\* the URLs of the login domain the claim is about: one handled pattern
\* that is not a manual-intervention pattern
StallUrls ==
    {Url(LoginHost, {p}, {}) :
        p \in {"signin/identifier", "challenge/pwd", "challenge/totp",
               "signin/oauth/id", "signin/challenge/pk/presend",
               "accounts/SetSID", "challenge/ipp/verify"}}

\* C33: when the page stays for ever on one of these URLs while the loop of
\* performGoogleLogin polls it, performGoogleLogin throws.  (A poll of an
\* uncounted URL that was handled before changes no variable: the loop
\* sleeps and polls again, so a behaviour that repeats such a state for
\* ever is the loop running for ever.)
C33_StallTerminates ==
    \A u \in StallUrls :
        <>[](url = u /\ lpc \in {"loop", "manual", "threw"})
            => <>(lpc = "threw")

\* the browser of the task's session runs on its profile directory
ProfileInUse(t) == t \in runningTasks /\ proc[t] = "running"

\* C34: the profile removal of a finishing task never removes the
\* directory that the session of another running task is using.
C34_ProfileIsolation ==
    [][\A t \in TaskIds :
          rmCalls'[t] > rmCalls[t] =>
              ~\E o \in TaskIds \ {t} :
                  /\ taskAccount[o] = taskAccount[t]
                  /\ ProfileInUse(o)]_vars

LaunchErrors == {"startup-timeout", "connect-failure"}

\* C35: a task that failed in the launch of its session has no browser
\* process left running.
C35_NoProcessLeak ==
    \A t \in TaskIds :
        (status[t] = "failed" /\ taskError[t] \in LaunchErrors) =>
            proc[t] # "running"

\* C36: completed + failed + running + pending is the number of enqueued
\* tasks in every state.
C36_Conservation ==
    completedTasks + failedTasks + Cardinality(runningTasks) + Len(tasks)
        = Cardinality(Enqueued)

Became(s) == {t \in TaskIds : status[t] # s /\ status'[t] = s}

LifeCycle ==
    {<<"none", "pending">>, <<"pending", "running">>,
     <<"running", "completed">>, <<"running", "failed">>}

\* C37: a status moves only along pending, running, completed or failed,
\* and every step that completes or fails tasks adds exactly their number
\* to completedTasks or failedTasks, which change in no other step.
C37_LifeCycle ==
    [][/\ \A t \in TaskIds :
              status'[t] # status[t] =>
                  <<status[t], status'[t]>> \in LifeCycle
       /\ completedTasks' =
              completedTasks + Cardinality(Became("completed"))
       /\ failedTasks' = failedTasks + Cardinality(Became("failed"))]_vars

C37_Witness ==
    /\ \E t \in TaskIds : status[t] = "completed" /\ tpc[t] = "done"
    /\ \E t \in TaskIds : status[t] = "failed" /\ tpc[t] = "done"
    /\ completedTasks = 1
    /\ failedTasks = 1

\* C38: retryCount is -1 or in 0..16; it is -1 only after the reload of the
\* identifier page and before the next poll; a poll that handles the URL
\* leaves it at 0.
C38_StallCounterBounded ==
    /\ retryCount \in {RetryCountAfterReload} \cup 0..(RetryCeiling + 1)
    /\ retryCount = RetryCountAfterReload =>
          /\ pageAction = "reload"
          /\ includes(lastUrl, "signin/identifier")
    /\ ~ENABLED (/\ Poll
                 /\ ~(SameUrlAgain /\ retryCount # RetryCountAfterReload)
                 /\ retryCount' # 0)

C38_Witness == retryCount = RetryCeiling + 1 /\ lpc = "loop"

Distinct(q) == {q[i] : i \in 1..Len(q)}

\* C39: the used count printed at the end of a run is the number of
\* distinct accounts given to the tasks of the run, and at most the total.
C39_UsedRatio ==
    stats # NoStats =>
        /\ stats.used = Cardinality(Distinct(assigned))
        /\ stats.used <= stats.total

Spec == Init /\ [][Next]_vars

SpecLogin == InitLogin /\ [][NextLogin]_vars

\* the loop of performGoogleLogin never stops polling: its sleeps return
SpecLoginFair ==
    SpecLogin /\ WF_vars(Poll) /\ WF_vars(manualPoll)

SpecStore == InitStore /\ [][NextStore]_vars

SpecParse == InitParse /\ [][NextParse]_vars

SpecRun == InitRun /\ [][NextRun]_vars

SpecFormat == InitFormat /\ [][NextFormat]_vars

SpecTail == InitTail /\ [][NextTail]_vars

SpecEnqueue == InitEnqueue /\ [][NextEnqueue]_vars

SpecSetup == InitSetup /\ [][NextSetup]_vars

\* every pass of the polling loop ends: fetch is aborted after a second
SpecSetupFair == SpecSetup /\ WF_vars(NextSetup)
====
